---- MODULE Spec2Model ----
(***************************************************************************)
(* EmissionTracker backend: the request trust pipeline.                    *)
(*   verify_token   (app/auth/cognito.py)  bearer token -> claim set       *)
(*   get_tenant_db  (app/dependencies.py)  sub -> User -> SET LOCAL marker *)
(* over a process-wide JWKS cache (lru_cache) and a pool of reused         *)
(* database connections.                                                   *)
(***************************************************************************)
EXTENDS Integers, Sequences, FiniteSets, TLC

(***************************************************************************)
(* Bounds of the model.                                                    *)
(***************************************************************************)
PoolSize == 1
MaxReads == 1

\* Two request tasks: one request and a concurrent or later one.
Requests == {1, 2}
Conns == 1..PoolSize

(***************************************************************************)
(* Data universe.                                                          *)
(***************************************************************************)
Kids == {"k1", "k2"}
Subjects == {"s1", "s2"}
Emails == {"e1", "e2"}
CompanyIds == {1, 2}

\* str(uuid): the text form of a company id, and the store's cast back.
UuidStr(cid) == IF cid = 1 THEN "uuid-1" ELSE IF cid = 2 THEN "uuid-2" ELSE "uuid-x"

CastUuid(s) == IF s = "uuid-1" THEN 1 ELSE IF s = "uuid-2" THEN 2 ELSE 0

\* The marker of a transaction in which SET LOCAL has not run.
NoMarker == ""

(***************************************************************************)
(* Bearer tokens.  shape: "malformed" (segments/header do not parse),      *)
(* "nokid" (header parses but carries no kid), "ok".  sig: the signature   *)
(* verifies under the published key of kid.  sub = "" : no sub claim.      *)
(* alg: the header's algorithm.  aud: the audience claim ("" : none).      *)
(***************************************************************************)
MalformedToken ==
  [shape |-> "malformed", kid |-> "", alg |-> "RS256", sig |-> FALSE, expired |-> FALSE,
   sub |-> "", email |-> "e1", aud |-> "a1"]

NoKidToken ==
  [shape |-> "nokid", kid |-> "", alg |-> "RS256", sig |-> TRUE, expired |-> FALSE,
   sub |-> "s1", email |-> "e1", aud |-> "a1"]

Token(k, sg, ex, s, e) ==
  [shape |-> "ok", kid |-> k, alg |-> "RS256", sig |-> sg, expired |-> ex,
   sub |-> s, email |-> e, aud |-> "a1"]

\* Signed by a published key and unexpired; they differ in kid, sub, email.
ValidTokens ==
  { Token("k1", TRUE, FALSE, "s1", "e1"), Token("k1", TRUE, FALSE, "s1", "e2"),
    Token("k1", TRUE, FALSE, "s2", "e2"), Token("k2", TRUE, FALSE, "s1", "e1"),
    Token("k1", TRUE, FALSE, "", "e1"),
    [Token("k1", TRUE, FALSE, "s1", "e1") EXCEPT !.aud = "a2"],
    [Token("k1", TRUE, FALSE, "s1", "e1") EXCEPT !.aud = ""] }

\* Bad signature, expired, or both; or signed with another algorithm.
InvalidTokens ==
  { Token("k1", FALSE, FALSE, "s1", "e1"), Token("k1", TRUE, TRUE, "s1", "e1"),
    Token("k1", FALSE, TRUE, "s1", "e1"),
    [Token("k1", TRUE, FALSE, "s1", "e1") EXCEPT !.alg = "HS256"] }

Tokens == {MalformedToken, NoKidToken} \cup ValidTokens \cup InvalidTokens

\* The payload jwt.decode returns.
Payload(t) == [sub |-> t.sub, email |-> t.email, aud |-> t.aud]

(***************************************************************************)
(* What _get_jwks can produce.  kind: "keys" (a JWKS document with the     *)
(* kids listed), "badshape" (valid JSON without a usable "keys" member),   *)
(* "raised" (urlopen or json.loads raises: DNS, timeout, not JSON).        *)
(***************************************************************************)
NoJwks == [kind |-> "none", keys |-> {}]

KeySets == { {}, {"k1"}, {"k1", "k2"} }

FetchedDocs ==
  { [kind |-> "keys", keys |-> ks] : ks \in KeySets }
    \cup { [kind |-> "badshape", keys |-> {}] }

FetchErrors == { [kind |-> "raised", keys |-> {}] }

FetchResults == FetchedDocs \cup FetchErrors

(***************************************************************************)
(* Responses.                                                              *)
(***************************************************************************)
HTTP_401_UNAUTHORIZED == 401

Response(st, ex, det, cl) == [status |-> st, exc |-> ex, detail |-> det, claims |-> cl]

\* Mutant: jwt.decode without verify_aud False rejects any audience claim.
VerifyWithJwksCheckingAud(t, jwks) ==
  IF jwks.kind = "badshape"
    THEN Response(500, "KeyError", "Internal Server Error", {})
  ELSE IF jwks.keys = {}
    THEN Response(HTTP_401_UNAUTHORIZED, "HTTPException", "Public key not found", {})
  ELSE IF t.shape = "nokid"
    THEN Response(500, "KeyError", "Internal Server Error", {})
  ELSE IF t.kid \notin jwks.keys
    THEN Response(HTTP_401_UNAUTHORIZED, "HTTPException", "Public key not found", {})
  ELSE IF t.alg # "RS256"
    THEN Response(HTTP_401_UNAUTHORIZED, "InvalidAlgorithmError",
                  "The specified alg value is not allowed", {})
  ELSE IF ~t.sig
    THEN Response(HTTP_401_UNAUTHORIZED, "InvalidSignatureError", "Signature verification failed", {})
  ELSE IF t.expired
    THEN Response(HTTP_401_UNAUTHORIZED, "ExpiredSignatureError", "Token expired", {})
  ELSE IF t.aud # ""
    THEN Response(HTTP_401_UNAUTHORIZED, "InvalidAudienceError", "Invalid audience", {})
  ELSE Response(0, "", "", {Payload(t)})

\* cognito.py:21-27 and 36-46, given the parsed header and the JWKS document.
\* Exceptions that are neither HTTPException nor jwt.InvalidTokenError leave
\* verify_token unhandled and the framework answers 500.  jwt.decode checks
\* the algorithm, then the signature, then exp; the audience is not checked.
VerifyWithJwks(t, jwks) ==
  IF jwks.kind = "badshape"
    THEN Response(500, "KeyError", "Internal Server Error", {})
  ELSE IF jwks.keys = {}
    THEN Response(HTTP_401_UNAUTHORIZED, "HTTPException", "Public key not found", {})
  ELSE IF t.shape = "nokid"
    THEN Response(500, "KeyError", "Internal Server Error", {})
  ELSE IF t.kid \notin jwks.keys
    THEN Response(HTTP_401_UNAUTHORIZED, "HTTPException", "Public key not found", {})
  ELSE IF t.alg # "RS256"
    THEN Response(HTTP_401_UNAUTHORIZED, "InvalidAlgorithmError",
                  "The specified alg value is not allowed", {})
  ELSE IF ~t.sig
    THEN Response(HTTP_401_UNAUTHORIZED, "InvalidSignatureError", "Signature verification failed", {})
  ELSE IF t.expired
    THEN Response(HTTP_401_UNAUTHORIZED, "ExpiredSignatureError", "Token expired", {})
  ELSE Response(0, "", "", {Payload(t)})

(***************************************************************************)
(* The store.  users: the rows of table "users"; rows: the rows of a       *)
(* tenant-scoped business table (TenantMixin: company_id NOT NULL).        *)
(***************************************************************************)
UserRow(id, s, c, e, sa) ==
  [id |-> id, cognito_sub |-> s, company_id |-> c, email |-> e, is_superadmin |-> sa]

CompanyRow(id, slug) == [id |-> id, slug |-> slug]

\* The email stored for a subject at provisioning time.
StoredEmail(s) == IF s = "s1" THEN "e1" ELSE "e2"

\* Stores the program can hold: cognito_sub is unique (tenant.py:44).  In
\* the first, subject s2 is not provisioned; in the second it is a user of
\* company 2 that the seed script promoted to super-admin.
InitialStores ==
  { { UserRow(1, "s1", 1, StoredEmail("s1"), FALSE) },
    { UserRow(1, "s1", 1, StoredEmail("s1"), FALSE),
      UserRow(2, "s2", 2, StoredEmail("s2"), TRUE) } }

PLATFORM_COMPANY_SLUG == "__platform__"

\* Table companies of the request pipeline's store.
InitialCompanies ==
  { CompanyRow(1, "acme"), CompanyRow(2, "globex"), CompanyRow(3, PLATFORM_COMPANY_SLUG) }

\* Two companies with disjoint rows whose non-key fields are identical.
TenantRows ==
  { [id |-> 1, company_id |-> 1, val |-> "x"],
    [id |-> 2, company_id |-> 2, val |-> "x"],
    [id |-> 3, company_id |-> 2, val |-> "y"] }

\* Mutant: the lookup trusts the email claim instead of sub.
SelectUserByEmail(store, claims) == { u \in store : u.email = claims.email }

\* select(User).where(User.cognito_sub == cognito_sub); a missing sub claim
\* compares against NULL and matches no row.
SelectUserBySub(store, claims) == { u \in store : claims.sub # "" /\ u.cognito_sub = claims.sub }

\* Mutant: the wrong column of the User row is handed to SET LOCAL.
MarkerValueWrongField(user) == user.cognito_sub

\* The value handed to SET LOCAL app.current_company_id.
MarkerValue(user) == UuidStr(user.company_id)

(***************************************************************************)
(* A pooled connection.  owner: the request whose session holds it (0:     *)
(* in the pool); local: the value SET LOCAL gave the variable in the       *)
(* open transaction; session: the value a plain SET would leave on the     *)
(* connection; lastMarker/lastEnd: what the previous transaction on this   *)
(* connection set and how it ended (history).                              *)
(***************************************************************************)
FreshConn == [owner |-> 0, local |-> NoMarker, session |-> NoMarker,
              lastMarker |-> NoMarker, lastEnd |-> "never"]

\* current_setting('app.current_company_id') as the row policies read it.
CurrentSetting(c) == IF c.local # NoMarker THEN c.local ELSE c.session

\* Mutant: a plain SET, scoped to the session that lives on the connection.
SetSession(c, cid) == [c EXCEPT !.session = cid]

\* SET LOCAL app.current_company_id = :cid
SetLocal(c, cid) == [c EXCEPT !.local = cid]

\* COMMIT or ROLLBACK: a value given by SET LOCAL ends with the transaction.
EndTransaction(c, how) ==
  [c EXCEPT !.owner = 0, !.local = NoMarker, !.lastMarker = c.local, !.lastEnd = how]

\* The rows a query on a tenant-scoped table returns under the row policy
\* company_id = current_setting('app.current_company_id')::uuid.
RlsVisible(table, marker) == { row \in table : row.company_id = CastUuid(marker) }

(***************************************************************************)
(* State.                                                                  *)
(***************************************************************************)
VARIABLES
  jwksCache,   \* the lru_cache(maxsize=1) slot of _get_jwks
  users,       \* table users
  rows,        \* a tenant-scoped business table
  conns,       \* the connection pool
  req,         \* per request: position and locals
  companies,   \* table companies
  prov,        \* per provision_user call: position and locals
  seeds        \* per run of the seed script: position and locals

vars == <<jwksCache, users, rows, conns, req, companies, prov, seeds>>

\* What the request pipeline up to the handlers of this section leaves alone.
adminState == <<companies, prov, seeds>>

NoToken == MalformedToken

IdleRequest ==
  [pc |-> "idle", route |-> "", tok |-> NoToken, jwks |-> NoJwks, fetches |-> 0,
   resp |-> Response(0, "", "", {}), user |-> {}, conn |-> 0,
   activated |-> NoMarker, qlog |-> <<>>, trace |-> <<>>]

\* Two concurrent provision_user calls and two runs of the seed script.
ProvTasks == {1, 2}
SeedRuns == {1, 2}

IdleProv ==
  [pc |-> "idle", company |-> 0, sub |-> "", email |-> "", status |-> 0,
   taken |-> FALSE]

IdleSeed ==
  [pc |-> "idle", sub |-> "", email |-> "", platform |-> 0, pending |-> FALSE,
   existing |-> {}, outcome |-> ""]

Init ==
  /\ jwksCache = NoJwks
  /\ users \in InitialStores
  /\ rows = TenantRows
  /\ conns = [c \in Conns |-> FreshConn]
  /\ req = [r \in Requests |-> IdleRequest]
  /\ companies = InitialCompanies
  /\ prov = [p \in ProvTasks |-> IdleProv]
  /\ seeds = [k \in SeedRuns |-> IdleSeed]

Finish(r, resp) == [req EXCEPT ![r].pc = "done", ![r].resp = resp]

(***************************************************************************)
(* verify_token                                                            *)
(***************************************************************************)
\* cognito.py:33-35,22: the request arrives; jwt.get_unverified_header.
ParseHeader(r, t) ==
  /\ req[r].pc = "idle"
  /\ \A q \in Requests : q < r => req[q].pc # "idle"
  /\ IF t.shape = "malformed"
       THEN req' = [req EXCEPT ![r].pc = "done", ![r].tok = t,
                      ![r].resp = Response(HTTP_401_UNAUTHORIZED, "DecodeError",
                                           "Not enough segments", {})]
       ELSE req' = [req EXCEPT ![r].pc = "get_jwks", ![r].tok = t]
  /\ UNCHANGED <<jwksCache, users, rows, conns, adminState>>

\* cognito.py:15-16,23: lru_cache hit.
JwksHit(r) ==
  /\ req[r].pc = "get_jwks"
  /\ jwksCache # NoJwks
  /\ req' = [req EXCEPT ![r].pc = "find_key", ![r].jwks = jwksCache]
  /\ UNCHANGED <<jwksCache, users, rows, conns, adminState>>

\* Mutant: _get_jwks without its cache fetches on every call.
FetchStartUncached(r) ==
  /\ req[r].pc = "get_jwks"
  /\ req' = [req EXCEPT ![r].pc = "fetching", ![r].fetches = @ + 1]
  /\ UNCHANGED <<jwksCache, users, rows, conns, adminState>>

\* cognito.py:15-17: lru_cache miss, urlopen starts (no lock is held).
FetchStart(r) ==
  /\ req[r].pc = "get_jwks"
  /\ jwksCache = NoJwks
  /\ req' = [req EXCEPT ![r].pc = "fetching", ![r].fetches = @ + 1]
  /\ UNCHANGED <<jwksCache, users, rows, conns, adminState>>

\* cognito.py:17-18: the fetch ends.  A raised exception is not cached and
\* is not caught by verify_token; a returned document is stored unless a
\* concurrent call stored one meanwhile, and the caller uses its own result.
FetchDone(r, doc) ==
  /\ req[r].pc = "fetching"
  /\ IF doc \in FetchErrors
       THEN /\ req' = [req EXCEPT ![r].pc = "done", ![r].jwks = doc,
                         ![r].resp = Response(500, doc.kind, "Internal Server Error", {})]
            /\ UNCHANGED jwksCache
       ELSE /\ req' = [req EXCEPT ![r].pc = "find_key", ![r].jwks = doc]
            /\ jwksCache' = IF jwksCache = NoJwks THEN doc ELSE jwksCache
  /\ UNCHANGED <<users, rows, conns, adminState>>

\* cognito.py:24-27,36-46: key search and jwt.decode.
FindKeyAndDecode(r) ==
  /\ req[r].pc = "find_key"
  /\ LET out == VerifyWithJwks(req[r].tok, req[r].jwks) IN
       IF out.claims = {}
         THEN req' = Finish(r, out)
         ELSE req' = [req EXCEPT ![r].pc = "verified", ![r].resp = out,
                        ![r].trace = Append(@, "verified")]
  /\ UNCHANGED <<jwksCache, users, rows, conns, adminState>>

(***************************************************************************)
(* get_tenant_db                                                           *)
(***************************************************************************)
Query(tbl, marker, out) == [table |-> tbl, marker |-> marker, rowsOut |-> out]

\* The claim set verify_token returned to the dependency.
Claims(r) == CHOOSE c \in req[r].resp.claims : TRUE

\* Mutant: an unknown subject is silently given an account and let through.
LookupUserAutoProvision(r, c) ==
  /\ req[r].pc = "verified"
  /\ conns[c].owner = 0
  /\ LET found == SelectUserBySub(users, Claims(r))
         q == Query("users", CurrentSetting(conns[c]), {})
         made == UserRow(9, Claims(r).sub, 1, Claims(r).email, FALSE)
     IN /\ req' = [req EXCEPT ![r].pc = "resolved", ![r].conn = c, ![r].route = "tenant",
                     ![r].user = IF found = {} THEN {made} ELSE found,
                     ![r].qlog = Append(@, q), ![r].trace = Append(@, "lookup")]
        /\ users' = IF found = {} THEN users \cup {made} ELSE users
  /\ conns' = [conns EXCEPT ![c].owner = r]
  /\ UNCHANGED <<jwksCache, rows, adminState>>

\* dependencies.py:17,29-37: the session takes a pooled connection and opens
\* its transaction with the users lookup; scalar_one_or_none; 401 when no
\* User row has the token's sub.
LookupUser(r, c) ==
  /\ req[r].pc = "verified"
  /\ conns[c].owner = 0
  /\ LET found == SelectUserBySub(users, Claims(r))
         q == Query("users", CurrentSetting(conns[c]), {})
     IN
       IF found = {}
         THEN req' = [req EXCEPT ![r].pc = "teardown", ![r].conn = c, ![r].route = "tenant",
                        ![r].qlog = Append(@, q), ![r].trace = Append(@, "lookup"),
                        ![r].resp = Response(HTTP_401_UNAUTHORIZED, "HTTPException",
                                     "User not provisioned. Contact your administrator.",
                                     req[r].resp.claims)]
       ELSE IF Cardinality(found) > 1
         THEN req' = [req EXCEPT ![r].pc = "teardown", ![r].conn = c, ![r].route = "tenant",
                        ![r].qlog = Append(@, q), ![r].trace = Append(@, "lookup"),
                        ![r].resp = Response(500, "MultipleResultsFound",
                                             "Internal Server Error", req[r].resp.claims)]
         ELSE req' = [req EXCEPT ![r].pc = "resolved", ![r].conn = c, ![r].user = found,
                        ![r].route = "tenant", ![r].qlog = Append(@, q), ![r].trace = Append(@, "lookup")]
  /\ conns' = [conns EXCEPT ![c].owner = r]
  /\ UNCHANGED <<jwksCache, users, rows, adminState>>

\* Mutant: the session is yielded without SET LOCAL having run.
ActivateWithoutSet(r) ==
  /\ req[r].pc = "resolved"
  /\ req' = [req EXCEPT ![r].pc = "yielded",
               ![r].activated = MarkerValue(CHOOSE x \in req[r].user : TRUE),
               ![r].trace = Append(@, "activated")]
  /\ UNCHANGED <<jwksCache, users, rows, conns, adminState>>

\* dependencies.py:41-46: SET LOCAL app.current_company_id, then yield.
Activate(r) ==
  /\ req[r].pc = "resolved"
  /\ LET u == CHOOSE x \in req[r].user : TRUE
         c == req[r].conn
     IN /\ conns' = [conns EXCEPT ![c] = SetLocal(@, MarkerValue(u))]
        /\ req' = [req EXCEPT ![r].pc = "yielded", ![r].activated = MarkerValue(u),
                     ![r].trace = Append(@, "activated")]
  /\ UNCHANGED <<jwksCache, users, rows, adminState>>

BusinessReads(r) == Len(SelectSeq(req[r].qlog, LAMBDA q : q.table = "rows"))

\* Mutant: the handler's read can run on the session before activation.
HandlerReadBeforeActivation(r) ==
  /\ req[r].pc \in {"resolved", "yielded"}
  /\ BusinessReads(r) < MaxReads
  /\ LET m == CurrentSetting(conns[req[r].conn]) IN
       req' = [req EXCEPT ![r].qlog = Append(@, Query("rows", m, RlsVisible(rows, m))),
                 ![r].trace = Append(@, "query")]
  /\ UNCHANGED <<jwksCache, users, rows, conns, adminState>>

\* A business-logic read issued by the handler on the yielded session.
HandlerRead(r) ==
  /\ req[r].pc = "yielded"
  /\ BusinessReads(r) < MaxReads
  /\ LET m == CurrentSetting(conns[req[r].conn]) IN
       req' = [req EXCEPT ![r].qlog = Append(@, Query("rows", m, RlsVisible(rows, m))),
                 ![r].trace = Append(@, "query")]
  /\ UNCHANGED <<jwksCache, users, rows, conns, adminState>>

\* The handler returns its response.
HandlerReturn(r) ==
  /\ req[r].pc = "yielded"
  /\ req' = [req EXCEPT ![r].pc = "teardown",
               ![r].resp = Response(200, "", "", req[r].resp.claims)]
  /\ UNCHANGED <<jwksCache, users, rows, conns, adminState>>

(***************************************************************************)
(* The /admin router: require_superadmin, then the handler on a session    *)
(* from get_db.                                                            *)
(***************************************************************************)
HTTP_403_FORBIDDEN == 403

\* Router dependency of every /admin route: after verify_token, look the
\* User up by sub (401 when there is none) and require is_superadmin (403).
RequireSuperadmin(r, c) ==
  /\ req[r].pc = "verified"
  /\ conns[c].owner = 0
  /\ LET found == SelectUserBySub(users, Claims(r))
         q == Query("users", CurrentSetting(conns[c]), {})
     IN
       IF found = {}
         THEN req' = [req EXCEPT ![r].pc = "teardown", ![r].conn = c, ![r].route = "admin",
                        ![r].qlog = Append(@, q), ![r].trace = Append(@, "lookup"),
                        ![r].resp = Response(HTTP_401_UNAUTHORIZED, "HTTPException",
                                     "User not provisioned. Contact your administrator.",
                                     req[r].resp.claims)]
       ELSE IF \E u \in found : ~u.is_superadmin
         THEN req' = [req EXCEPT ![r].pc = "teardown", ![r].conn = c, ![r].route = "admin",
                        ![r].user = found, ![r].qlog = Append(@, q),
                        ![r].trace = @ \o <<"lookup", "gate">>,
                        ![r].resp = Response(HTTP_403_FORBIDDEN, "HTTPException",
                                     "Super-admin access required.", req[r].resp.claims)]
         ELSE req' = [req EXCEPT ![r].pc = "admin", ![r].conn = c, ![r].route = "admin",
                        ![r].user = found, ![r].qlog = Append(@, q),
                        ![r].trace = @ \o <<"lookup", "gate">>]
  /\ conns' = [conns EXCEPT ![c].owner = r]
  /\ UNCHANGED <<jwksCache, users, rows, adminState>>

\* Mutant: the admin handler takes its session from get_tenant_db.
ListCompaniesOnTenantSession(r) ==
  /\ req[r].pc = "admin"
  /\ LET m == MarkerValue(CHOOSE x \in req[r].user : TRUE) IN
       /\ conns' = [conns EXCEPT ![req[r].conn] = SetLocal(@, m)]
       /\ req' = [req EXCEPT ![r].pc = "teardown",
                    ![r].qlog = Append(@, Query("companies", m, {})),
                    ![r].trace = Append(@, "admin_handler"),
                    ![r].resp = Response(200, "", "", req[r].resp.claims)]
  /\ UNCHANGED <<jwksCache, users, rows, adminState>>

\* admin.py:34-38: list_companies on Depends(get_db); companies carries no
\* company_id and no row policy, so rowsOut stays empty in the log.
ListCompanies(r) ==
  /\ req[r].pc = "admin"
  /\ LET m == CurrentSetting(conns[req[r].conn]) IN
       req' = [req EXCEPT ![r].pc = "teardown",
                 ![r].qlog = Append(@, Query("companies", m, {})),
                 ![r].trace = Append(@, "admin_handler"),
                 ![r].resp = Response(200, "", "", req[r].resp.claims)]
  /\ UNCHANGED <<jwksCache, users, rows, conns, adminState>>

\* get_db's exit: the transaction ends by commit or by rollback and the
\* connection goes back to the pool.
Teardown(r, how) ==
  /\ req[r].pc = "teardown"
  /\ how = "commit" => req[r].resp.status = 200
  /\ conns' = [conns EXCEPT ![req[r].conn] = EndTransaction(@, how)]
  /\ req' = [req EXCEPT ![r].pc = "done", ![r].conn = 0]
  /\ UNCHANGED <<jwksCache, users, rows, adminState>>

Next ==
  \/ \E r \in Requests, t \in Tokens : ParseHeader(r, t)
  \/ \E r \in Requests : JwksHit(r)
  \/ \E r \in Requests : FetchStart(r)
  \/ \E r \in Requests, doc \in FetchResults : FetchDone(r, doc)
  \/ \E r \in Requests : FindKeyAndDecode(r)
  \/ \E r \in Requests, c \in Conns : LookupUser(r, c)
  \/ \E r \in Requests : Activate(r)
  \/ \E r \in Requests : HandlerRead(r)
  \/ \E r \in Requests : HandlerReturn(r)
  \/ \E r \in Requests, c \in Conns : RequireSuperadmin(r, c)
  \/ \E r \in Requests : ListCompanies(r)
  \/ \E r \in Requests, how \in {"commit", "rollback"} : Teardown(r, how)

Spec == Init /\ [][Next]_vars


(***************************************************************************)
(* Provisioning and the seed script, on a store under READ COMMITTED: a    *)
(* select sees committed rows; an insert that meets a committed row with   *)
(* the same unique key raises IntegrityError; an insert that meets another *)
(* transaction's uncommitted row with the same key waits for it.           *)
(***************************************************************************)
\* Stores before any provisioning: the first deployment, and one tenant
\* user.
AdminInitialStores == { {}, { UserRow(1, "s1", 1, StoredEmail("s1"), FALSE) } }

AdminInitialCompanies == { CompanyRow(1, "acme"), CompanyRow(2, "globex") }

\* uuid.uuid4() of each call.
ProvUserId(p) == 10 + p

SeedUserId(k) == 20 + k

SeedCompanyId(k) == 30 + k

\* The company ids a provision_user call may name; 7 names no company.
ProvCompanyArgs == {1, 2, 7}

InitAdmin ==
  /\ jwksCache = NoJwks
  /\ users \in AdminInitialStores
  /\ rows = TenantRows
  /\ conns = [c \in Conns |-> FreshConn]
  /\ req = [r \in Requests |-> IdleRequest]
  /\ companies = AdminInitialCompanies
  /\ prov = [p \in ProvTasks |-> IdleProv]
  /\ seeds = [k \in SeedRuns |-> IdleSeed]

pipelineState == <<jwksCache, rows, conns, req>>

\* Mutant: users.cognito_sub without its unique constraint.
SubNotConstrained(store, sub) == TRUE

\* tenant.py:44: unique=True on users.cognito_sub, checked by the store on
\* insert.
SubUnique(store, sub) == \A u \in store : u.cognito_sub # sub

\* tenant.py:31: unique=True on companies.slug.
SlugUnique(store, slug) == \A c \in store : c.slug # slug

HTTP_201_CREATED == 201
HTTP_404_NOT_FOUND == 404
HTTP_409_CONFLICT == 409

\* admin.py:83-105: the company must exist and Cognito must know the sub.
ProvStart(p, cid, sub, email, inCognito) ==
  /\ prov[p].pc = "idle"
  /\ \A q \in ProvTasks : q < p => prov[q].pc # "idle"
  /\ IF (\A c \in companies : c.id # cid) \/ ~inCognito
       THEN prov' = [prov EXCEPT ![p].pc = "done", ![p].company = cid, ![p].sub = sub,
                       ![p].email = email, ![p].status = HTTP_404_NOT_FOUND]
       ELSE prov' = [prov EXCEPT ![p].pc = "check", ![p].company = cid, ![p].sub = sub,
                       ![p].email = email]
  /\ UNCHANGED <<users, companies, seeds, pipelineState>>

\* admin.py:107-115: the application-level existence check.
ProvCheckExisting(p) ==
  /\ prov[p].pc = "check"
  /\ LET taken == \E u \in users : u.cognito_sub = prov[p].sub IN
       IF taken
         THEN prov' = [prov EXCEPT ![p].pc = "done", ![p].status = HTTP_409_CONFLICT,
                         ![p].taken = TRUE]
         ELSE prov' = [prov EXCEPT ![p].pc = "insert"]
  /\ UNCHANGED <<users, companies, seeds, pipelineState>>

\* admin.py:117-126: INSERT and COMMIT.  IntegrityError is not caught: the
\* transaction is rolled back and the framework answers 500.
ProvCommit(p) ==
  /\ prov[p].pc = "insert"
  /\ LET taken == \E u \in users : u.cognito_sub = prov[p].sub IN
       IF SubUnique(users, prov[p].sub)
         THEN /\ users' = users \cup
                   { UserRow(ProvUserId(p), prov[p].sub, prov[p].company,
                             prov[p].email, FALSE) }
              /\ prov' = [prov EXCEPT ![p].pc = "done", ![p].status = HTTP_201_CREATED,
                            ![p].taken = taken]
         ELSE /\ users' = users
              /\ prov' = [prov EXCEPT ![p].pc = "done", ![p].status = 500,
                            ![p].taken = taken]
  /\ UNCHANGED <<companies, seeds, pipelineState>>

\* seed_superadmin.py:33-39: the run starts and looks the platform company
\* up.
SeedStart(k, sub, email) ==
  /\ seeds[k].pc = "idle"
  /\ \A j \in SeedRuns : j < k => seeds[j].pc # "idle"
  /\ LET found == { c \in companies : c.slug = PLATFORM_COMPANY_SLUG } IN
       IF found = {}
         THEN seeds' = [seeds EXCEPT ![k].pc = "flush", ![k].sub = sub, ![k].email = email]
         ELSE seeds' = [seeds EXCEPT ![k].pc = "select_user", ![k].sub = sub,
                          ![k].email = email,
                          ![k].platform = (CHOOSE c \in found : TRUE).id]
  /\ UNCHANGED <<users, companies, prov, pipelineState>>

\* seed_superadmin.py:40-47: the platform company is inserted by flush and
\* stays uncommitted.  It waits while another run holds an uncommitted
\* platform row.
SeedFlushPlatform(k) ==
  /\ seeds[k].pc = "flush"
  /\ \A j \in SeedRuns : ~seeds[j].pending
  /\ IF SlugUnique(companies, PLATFORM_COMPANY_SLUG)
       THEN seeds' = [seeds EXCEPT ![k].pc = "select_user", ![k].pending = TRUE,
                        ![k].platform = SeedCompanyId(k)]
       ELSE seeds' = [seeds EXCEPT ![k].pc = "done", ![k].outcome = "crashed"]
  /\ UNCHANGED <<users, companies, prov, pipelineState>>

\* seed_superadmin.py:49-53: is the subject already a user?
SeedSelectUser(k) ==
  /\ seeds[k].pc = "select_user"
  /\ LET found == { u \in users : u.cognito_sub = seeds[k].sub } IN
       IF Cardinality(found) > 1
         THEN seeds' = [seeds EXCEPT ![k].pc = "done", ![k].outcome = "crashed",
                          ![k].pending = FALSE]
         ELSE seeds' = [seeds EXCEPT ![k].pc = IF found = {} THEN "insert" ELSE "existing",
                          ![k].existing = found]
  /\ UNCHANGED <<users, companies, prov, pipelineState>>

\* The rows the run's transaction commits besides its change to users.
PendingCompanies(k) ==
  IF seeds[k].pending THEN { CompanyRow(seeds[k].platform, PLATFORM_COMPANY_SLUG) } ELSE {}

\* seed_superadmin.py:54-56,61: already a super-admin: return without
\* commit; leaving the session rolls the transaction back.
SeedAlreadySuperadmin(k) ==
  /\ seeds[k].pc = "existing"
  /\ \E u \in seeds[k].existing : u.is_superadmin
  /\ seeds' = [seeds EXCEPT ![k].pc = "done", ![k].outcome = "already", ![k].pending = FALSE]
  /\ UNCHANGED <<users, companies, prov, pipelineState>>

\* Mutant: promoting also moves the user into the platform company.
PromoteRowIntoPlatform(u, platform) ==
  [u EXCEPT !.is_superadmin = TRUE, !.company_id = platform]

\* seed_superadmin.py:58: existing.is_superadmin = True.
PromoteRow(u, platform) == [u EXCEPT !.is_superadmin = TRUE]

\* Mutant: the flag is set on the loaded object and never committed.
SeedPromoteWithoutCommit(k) ==
  /\ seeds[k].pc = "existing"
  /\ \E u \in seeds[k].existing : ~u.is_superadmin
  /\ seeds' = [seeds EXCEPT ![k].pc = "done", ![k].outcome = "promoted", ![k].pending = FALSE]
  /\ UNCHANGED <<users, companies, prov, pipelineState>>

\* seed_superadmin.py:57-61: UPDATE of the flag and COMMIT, which also
\* commits a platform company this run inserted.
SeedPromote(k) ==
  /\ seeds[k].pc = "existing"
  /\ \E u \in seeds[k].existing : ~u.is_superadmin
  /\ LET ids == { u.id : u \in seeds[k].existing } IN
       users' = { IF u.id \in ids THEN PromoteRow(u, seeds[k].platform) ELSE u : u \in users }
  /\ companies' = companies \cup PendingCompanies(k)
  /\ seeds' = [seeds EXCEPT ![k].pc = "done", ![k].outcome = "promoted", ![k].pending = FALSE]
  /\ UNCHANGED <<prov, pipelineState>>

\* seed_superadmin.py:63-72: INSERT of the super-admin and COMMIT; an
\* IntegrityError ends the run and rolls everything back.
SeedInsertUser(k) ==
  /\ seeds[k].pc = "insert"
  /\ IF SubUnique(users, seeds[k].sub)
       THEN /\ users' = users \cup
                 { UserRow(SeedUserId(k), seeds[k].sub, seeds[k].platform,
                           seeds[k].email, TRUE) }
            /\ companies' = companies \cup PendingCompanies(k)
            /\ seeds' = [seeds EXCEPT ![k].pc = "done", ![k].outcome = "created",
                           ![k].pending = FALSE]
       ELSE /\ UNCHANGED <<users, companies>>
            /\ seeds' = [seeds EXCEPT ![k].pc = "done", ![k].outcome = "crashed",
                           ![k].pending = FALSE]
  /\ UNCHANGED <<prov, pipelineState>>

NextAdmin ==
  \/ \E p \in ProvTasks, cid \in ProvCompanyArgs, sub \in Subjects, inCognito \in BOOLEAN :
       ProvStart(p, cid, sub, StoredEmail(sub), inCognito)
  \/ \E p \in ProvTasks : ProvCheckExisting(p)
  \/ \E p \in ProvTasks : ProvCommit(p)
  \/ \E k \in SeedRuns, sub \in Subjects : SeedStart(k, sub, StoredEmail(sub))
  \/ \E k \in SeedRuns : SeedFlushPlatform(k)
  \/ \E k \in SeedRuns : SeedSelectUser(k)
  \/ \E k \in SeedRuns : SeedAlreadySuperadmin(k)
  \/ \E k \in SeedRuns : SeedPromote(k)
  \/ \E k \in SeedRuns : SeedInsertUser(k)

SpecAdmin == InitAdmin /\ [][NextAdmin]_vars

(***************************************************************************)
(* Properties.                                                             *)
(***************************************************************************)
LookedUp(r) == \E i \in DOMAIN req[r].trace : req[r].trace[i] = "lookup"

Completed(r) == req[r].pc \in {"teardown", "done"}

TenantQueries(r) == { i \in DOMAIN req[r].qlog : req[r].qlog[i].table = "rows" }

\* C1: once get_tenant_db has activated the marker and yielded, the marker
\* is the company_id of the User row whose cognito_sub is the token's sub,
\* it stays the transaction's setting, and every read issued afterwards in
\* the transaction returns only rows of that company.
C1_TenantIsolation ==
  \A r \in Requests :
    req[r].activated # NoMarker =>
      /\ \E u \in users : /\ u.cognito_sub = Claims(r).sub
                          /\ req[r].activated = UuidStr(u.company_id)
      /\ req[r].conn # 0 => CurrentSetting(conns[req[r].conn]) = req[r].activated
      /\ \A i \in TenantQueries(r) :
           \A row \in req[r].qlog[i].rowsOut : UuidStr(row.company_id) = req[r].activated

\* A read returned rows of the activated company while another company
\* holds a row with the same non-key value.
C1_Witness ==
  \E r \in Requests : \E i \in TenantQueries(r) :
    /\ req[r].qlog[i].rowsOut # {}
    /\ \E a \in req[r].qlog[i].rowsOut, b \in rows \ req[r].qlog[i].rowsOut :
         a.val = b.val /\ a.company_id # b.company_id

\* C2 as stated: no query on a tenant-scoped table (users included) runs in
\* a transaction whose marker is unset.
C2_MarkerBeforeAnyTenantTableQuery ==
  \A r \in Requests : \A i \in DOMAIN req[r].qlog :
    req[r].route = "tenant" => req[r].qlog[i].marker # NoMarker

\* C2 amended: every business-logic query runs with the marker set; the one
\* query on a tenant-scoped table that runs with the marker unset is the
\* subject-to-User lookup on users, the first statement of the transaction.
C2_MarkerBeforeBusinessQuery ==
  \A r \in Requests : \A i \in DOMAIN req[r].qlog :
    /\ req[r].qlog[i].table = "rows" => req[r].qlog[i].marker # NoMarker
    /\ (req[r].route = "tenant" /\ req[r].qlog[i].marker = NoMarker) =>
         i = 1 /\ req[r].qlog[i].table = "users"

C2_Witness ==
  \E r \in Requests :
    /\ Len(req[r].qlog) >= 2
    /\ req[r].qlog[1].table = "users" /\ req[r].qlog[1].marker = NoMarker
    /\ req[r].qlog[2].table = "rows" /\ req[r].qlog[2].marker # NoMarker

\* C3: after a tenant-scoped transaction ends, by commit or rollback, its
\* connection carries no marker: a pooled connection shows none, the next
\* transaction on it starts with none, and no query of a request ever runs
\* under a marker other than the one that request activated.
C3_NoMarkerAcrossTransactions ==
  /\ \A c \in Conns : conns[c].owner = 0 => CurrentSetting(conns[c]) = NoMarker
  /\ \A r \in Requests :
       /\ req[r].conn # 0 => CurrentSetting(conns[req[r].conn]) = req[r].activated
       /\ \A i \in DOMAIN req[r].qlog :
            req[r].qlog[i].marker \in {NoMarker, req[r].activated}

\* A connection last used under company 1's marker is reused by a request
\* that activated company 2.
C3_Witness ==
  \E r \in Requests :
    /\ req[r].conn # 0
    /\ conns[req[r].conn].lastMarker = "uuid-1"
    /\ conns[req[r].conn].lastEnd = "commit"
    /\ req[r].activated = "uuid-2"
    /\ TenantQueries(r) # {}

\* C4: within a request verify_token completes before the user lookup, the
\* lookup before activation, and activation before any business query.
C4_PipelineOrder ==
  \A r \in Requests : \A i \in DOMAIN req[r].trace :
    /\ i = 1 => req[r].trace[i] = "verified" /\ req[r].resp.claims # {}
    /\ i = 2 => req[r].trace[i] = "lookup"
    /\ (i = 3 /\ req[r].route = "tenant") =>
         req[r].trace[i] = "activated" /\ req[r].user # {}
    /\ (i > 3 /\ req[r].route = "tenant") =>
         req[r].trace[i] = "query" /\ req[r].activated # NoMarker

\* Both requests are in flight, one of them past its business query.
C4_Witness ==
  \E r, q \in Requests :
    /\ r # q
    /\ Len(req[r].trace) = 4
    /\ req[q].pc \in {"get_jwks", "fetching", "find_key", "verified", "resolved"}

\* C5: a verified token whose sub matches no User row ends in 401, no
\* marker is set for the request, the handler is never reached, and no
\* User row appears in the store.
C5_UnprovisionedRejected ==
  /\ users \in InitialStores
  /\ \A r \in Requests :
       (LookedUp(r) /\ SelectUserBySub(users, Claims(r)) = {}) =>
         /\ req[r].resp.status = HTTP_401_UNAUTHORIZED
         /\ req[r].activated = NoMarker
         /\ req[r].user = {}
         /\ req[r].trace = <<"verified", "lookup">>
         /\ req[r].conn # 0 => CurrentSetting(conns[req[r].conn]) = NoMarker

C5_Witness ==
  \E r \in Requests :
    /\ req[r].pc = "done"
    /\ LookedUp(r)
    /\ Claims(r).sub = "s2"
    /\ req[r].resp.status = HTTP_401_UNAUTHORIZED

\* C6: two requests whose claim sets carry the same sub resolve to the same
\* User and activate the same company, or both fail, whatever their other
\* claims are.
C6_OnlySubDecides ==
  \A r, q \in Requests :
    (Completed(r) /\ Completed(q) /\ LookedUp(r) /\ LookedUp(q)
       /\ req[r].route = "tenant" /\ req[q].route = "tenant"
       /\ Claims(r).sub = Claims(q).sub) =>
      /\ req[r].user = req[q].user
      /\ req[r].activated = req[q].activated
      /\ (req[r].resp.status = HTTP_401_UNAUTHORIZED)
           <=> (req[q].resp.status = HTTP_401_UNAUTHORIZED)

C6_Witness ==
  \E r, q \in Requests :
    /\ req[r].route = "tenant" /\ req[q].route = "tenant"
    /\ Completed(r) /\ Completed(q)
    /\ LookedUp(r) /\ LookedUp(q)
    /\ Claims(r).sub = Claims(q).sub
    /\ Claims(r).email # Claims(q).email
    /\ req[r].activated # NoMarker

\* C7 as stated: a verify call whose token's kid is not in the cached key
\* set fails with 401 after exactly one re-fetch of the key set.
C7_UnknownKidRefetchesOnce ==
  \A r \in Requests :
    (req[r].pc = "done" /\ req[r].tok.shape = "ok" /\ req[r].jwks.kind = "keys"
       /\ req[r].tok.kid \notin req[r].jwks.keys) =>
      /\ req[r].resp.status = HTTP_401_UNAUTHORIZED
      /\ req[r].fetches = 1

\* C8 as stated: a verify call whose key-set fetch failed ends in 401 and
\* returns no claim set.
C8_FetchFailureIsUnauthenticated ==
  \A r \in Requests :
    req[r].jwks \in FetchErrors =>
      /\ req[r].resp.status = HTTP_401_UNAUTHORIZED
      /\ req[r].resp.claims = {}

\* C9 as stated: a token that is not well-formed (it does not parse, or its
\* header yields no key identifier) ends in 401 and returns no claim set;
\* stated for calls whose key set, if needed, was obtained.
C9_MalformedIsUnauthenticated ==
  \A r \in Requests :
    (req[r].pc = "done" /\ req[r].tok.shape \in {"malformed", "nokid"}
       /\ req[r].jwks.kind \in {"none", "keys"}) =>
      /\ req[r].resp.status = HTTP_401_UNAUTHORIZED
      /\ req[r].resp.claims = {}

\* C10 as stated: two tokens that fail verify_token for different internal
\* reasons get the same status and the same response body.
C10_FailuresIndistinguishable ==
  \A r, q \in Requests :
    (req[r].pc = "done" /\ req[q].pc = "done"
       /\ req[r].trace = <<>> /\ req[q].trace = <<>>
       /\ req[r].resp.status = HTTP_401_UNAUTHORIZED
       /\ req[q].resp.status = HTTP_401_UNAUTHORIZED
       /\ req[r].resp.exc # req[q].resp.exc) =>
      req[r].resp.detail = req[q].resp.detail

PastVerify(r) == req[r].pc \notin {"idle", "get_jwks", "fetching", "find_key"}

\* C11 as stated: a token whose expiry is in the past ends in 401, whatever
\* its signature, and yields no claim set.
C11_ExpiredIsUnauthenticated ==
  \A r \in Requests :
    (PastVerify(r) /\ req[r].tok.shape = "ok" /\ req[r].tok.expired) =>
      /\ req[r].resp.status = HTTP_401_UNAUTHORIZED
      /\ req[r].resp.claims = {}

\* C12: a well-formed, unexpired RS256 token signed by a key of the key set
\* makes verify_token return exactly its embedded claims, whatever its
\* audience claim is.
C12_ValidTokenReturnsClaims ==
  \A r \in Requests :
    (PastVerify(r) /\ req[r].tok.shape = "ok" /\ req[r].tok.alg = "RS256"
       /\ req[r].tok.sig /\ ~req[r].tok.expired
       /\ req[r].jwks.kind = "keys" /\ req[r].tok.kid \in req[r].jwks.keys) =>
      req[r].resp.claims =
        { [sub |-> req[r].tok.sub, email |-> req[r].tok.email, aud |-> req[r].tok.aud] }

\* Two verified tokens that differ only in their audience claim.
C12_Witness ==
  \E r, q \in Requests :
    /\ req[r].resp.claims # {} /\ req[q].resp.claims # {}
    /\ req[r].tok.aud = "a2" /\ req[q].tok.aud = "a1"
    /\ Claims(r).aud = "a2" /\ Claims(q).aud = "a1"

\* C13: once a fetched key set is cached, a verify call that then asks for
\* the key set takes it from the cache whole, without a fetch, and the
\* cached set is never replaced; every key set a call works on is one
\* whole fetched document.
C13_CachedKeySetNoFetch ==
  [][ /\ jwksCache # NoJwks => jwksCache' = jwksCache
      /\ \A r \in Requests :
           (req[r].pc = "get_jwks" /\ jwksCache # NoJwks /\ req'[r] # req[r]) =>
             /\ req'[r].pc = "find_key"
             /\ req'[r].fetches = req[r].fetches
             /\ req'[r].jwks = jwksCache
      /\ jwksCache' \in FetchedDocs \cup {NoJwks}
      /\ \A r \in Requests : req'[r].jwks \in FetchResults \cup {NoJwks} ]_vars

\* One call fetched the key set; a later call verified its token with a key
\* of that set and no fetch of its own.
C13_Witness ==
  \E r, q \in Requests :
    /\ req[q].fetches = 1 /\ req[q].jwks = jwksCache
    /\ req[r].fetches = 0 /\ req[r].resp.claims # {}
    /\ req[r].jwks = jwksCache /\ req[r].tok.kid \in jwksCache.keys

Reached(r, ev) == \E i \in DOMAIN req[r].trace : req[r].trace[i] = ev

\* The gate itself: an admin handler runs only after verify_token, the
\* lookup and the super-admin check, for a User whose flag is true; a
\* resolved User without the flag gets 403.
AdminGateHolds ==
  \A r \in Requests :
    /\ Reached(r, "admin_handler") =>
         /\ req[r].trace = <<"verified", "lookup", "gate", "admin_handler">>
         /\ req[r].user = SelectUserBySub(users, Claims(r))
         /\ \A u \in req[r].user : u.is_superadmin
    /\ (req[r].route = "admin" /\ \E u \in req[r].user : ~u.is_superadmin) =>
         /\ req[r].resp.status = HTTP_403_FORBIDDEN
         /\ ~Reached(r, "admin_handler")

\* A caller whose token did not verify, or whose sub has no User row, never
\* reaches the check or a handler.
AdminRejectedEarly ==
  \A r \in Requests :
    (Completed(r) /\ (req[r].resp.claims = {} \/ (req[r].route = "admin" /\ req[r].user = {}))) =>
      ~Reached(r, "gate") /\ ~Reached(r, "admin_handler")

\* C14 as stated: /admin handlers run only for a resolved super-admin, a
\* resolved User without the flag gets 403, and an unauthenticated or
\* unprovisioned caller gets 401 and never reaches the check or a handler.
C14_AdminOnlySuperadmin ==
  /\ AdminGateHolds
  /\ AdminRejectedEarly
  /\ \A r \in Requests :
       (Completed(r) /\ req[r].route # "tenant"
          /\ (req[r].resp.claims = {} \/ req[r].user = {})) =>
         req[r].resp.status = HTTP_401_UNAUTHORIZED

\* C15: a request on an /admin route never sets the tenant marker and all
\* its statements run with the marker unset; a connection carries a marker
\* only inside a get_tenant_db request; and a request whose handler ran
\* either passed the super-admin gate or runs under its tenant's marker.
C15_AdminPathUnscoped ==
  /\ \A r \in Requests :
       req[r].route = "admin" =>
         /\ req[r].activated = NoMarker
         /\ \A i \in DOMAIN req[r].qlog : req[r].qlog[i].marker = NoMarker
         /\ req[r].conn # 0 => CurrentSetting(conns[req[r].conn]) = NoMarker
  /\ \A c \in Conns :
       CurrentSetting(conns[c]) # NoMarker =>
         conns[c].owner # 0 /\ req[conns[c].owner].route = "tenant"
  /\ \A r \in Requests :
       /\ Reached(r, "query") => req[r].route = "tenant" /\ req[r].activated # NoMarker
       /\ Reached(r, "admin_handler") => req[r].route = "admin" /\ Reached(r, "gate")

\* An admin handler ran, unscoped, on a connection that a tenant request
\* had used under its marker.
C15_Witness ==
  \E r \in Requests :
    /\ req[r].route = "admin" /\ req[r].pc = "teardown"
    /\ Reached(r, "admin_handler")
    /\ conns[req[r].conn].lastMarker # NoMarker


\* C16: under any interleaving of provision_user calls and seed runs the
\* store holds at most one users row per cognito_sub.
C16_OneUserPerSub ==
  \A u \in users : \A v \in users : u.cognito_sub = v.cognito_sub => u = v

\* Two provision_user calls for one subject both passed the existence
\* check; the store accepted one insert and refused the other.
C16_Witness ==
  \E p \in ProvTasks : \E q \in ProvTasks :
    /\ p # q
    /\ prov[p].sub = prov[q].sub
    /\ prov[p].pc = "done" /\ prov[p].status = HTTP_201_CREATED
    /\ prov[q].pc = "done" /\ prov[q].status = 500 /\ prov[q].taken

\* C17: a provision_user call that meets a subject already provisioned,
\* at its existence check or at its insert, answers 409 and leaves the
\* store as it was.
C17_ProvisionedIsConflict ==
  \A p \in ProvTasks :
    (prov[p].pc = "done" /\ prov[p].taken) =>
      /\ prov[p].status = HTTP_409_CONFLICT
      /\ \A u \in users : u.id # ProvUserId(p)

\* The part of C17 that holds: the call never adds a row for a subject
\* that is already provisioned.
ProvisionedLeavesStore ==
  \A p \in ProvTasks :
    (prov[p].pc = "done" /\ prov[p].taken) => \A u \in users : u.id # ProvUserId(p)

\* C18: no step changes the company_id (or the subject) of a users row;
\* a seed run on an existing user changes only is_superadmin.
C18_CompanyNeverChanges ==
  [][\A u \in users : \E v \in users' :
       /\ v.id = u.id
       /\ v.company_id = u.company_id
       /\ v.cognito_sub = u.cognito_sub
       /\ v.email = u.email]_vars

\* A seed run promoted a user that a tenant company had provisioned.
C18_Witness ==
  \E k \in SeedRuns :
    /\ seeds[k].pc = "done" /\ seeds[k].outcome = "promoted"
    /\ \E u \in users :
         /\ u.cognito_sub = seeds[k].sub
         /\ u.is_superadmin
         /\ u.company_id # seeds[k].platform

\* A run that ended without an exception.
SeedCompleted(k) ==
  seeds[k].pc = "done" /\ seeds[k].outcome \in {"already", "promoted", "created"}

\* After a completed run: one users row for the subject, a super-admin,
\* and at most one platform company.
SeedPostcondition ==
  \A k \in SeedRuns :
    SeedCompleted(k) =>
      /\ Cardinality({ u \in users : u.cognito_sub = seeds[k].sub }) = 1
      /\ \A u \in users : u.cognito_sub = seeds[k].sub => u.is_superadmin
      /\ Cardinality({ c \in companies : c.slug = PLATFORM_COMPANY_SLUG }) <= 1

\* A run's rows are committed together or not at all.
SeedAtomic ==
  \A k \in SeedRuns :
    /\ (\E c \in companies : c.id = SeedCompanyId(k)) =>
         (seeds[k].pc = "done" /\ seeds[k].outcome \in {"promoted", "created"})
    /\ (\E u \in users : u.id = SeedUserId(k)) =>
         (seeds[k].pc = "done" /\ seeds[k].outcome = "created")
    /\ (seeds[k].pc = "done" /\ seeds[k].outcome \in {"promoted", "created"}
          /\ seeds[k].platform = SeedCompanyId(k)) =>
         \E c \in companies : c.id = SeedCompanyId(k)

\* A step of a run, for a subject that a completed run has already
\* seeded, leaves the store as it is.
SeedRerunNoChange ==
  \A k \in SeedRuns :
    (/\ seeds'[k] # seeds[k]
     /\ \E j \in SeedRuns \ {k} : SeedCompleted(j) /\ seeds[j].sub = seeds'[k].sub)
      => (users' = users /\ companies' = companies)

\* C19: seed is idempotent: its postcondition holds after every completed
\* run, a further run for the same subject changes nothing, and a run's
\* changes are committed together or not at all.
C19_SeedIdempotent ==
  /\ [](SeedPostcondition /\ SeedAtomic)
  /\ [][SeedRerunNoChange]_vars

\* A first run created the platform company and the super-admin, and a
\* second run for the same subject found it done.
C19_Witness ==
  \E j \in SeedRuns : \E k \in SeedRuns :
    /\ seeds[j].pc = "done" /\ seeds[j].outcome = "created"
    /\ seeds[j].platform = SeedCompanyId(j)
    /\ seeds[k].pc = "done" /\ seeds[k].outcome = "already"
    /\ seeds[k].sub = seeds[j].sub

====
